---- MODULE Spec2Model ----
(***************************************************************************)
(* Model of the vocabulary study table (src/src/App.jsx): stable row ids   *)
(* (fnv1aHash / makeId / makeIdSimple), the studied map kept in React      *)
(* state and in localStorage under 'studiedRows', the migration effect     *)
(* that re-keys old studied entries, and the handlers that change the map. *)
(*                                                                         *)
(* Strings are sequences of UTF-16 code units (naturals).  A 32-bit value  *)
(* is a pair <<hi, lo>> of 16-bit halves, so that no intermediate result   *)
(* leaves the range of the model checker's integers.                       *)
(***************************************************************************)
EXTENDS Naturals, Sequences, FiniteSets

(***************************************************************************)
(* Bounds of the model.                                                    *)
(***************************************************************************)
MaxRows == 2
MaxInitKeys == 2

(***************************************************************************)
(* 32-bit arithmetic on <<hi, lo>> pairs.                                  *)
(***************************************************************************)
Half == 256 * 256

RECURSIVE Pow2(_)
Pow2(k) == IF k = 0 THEN 1 ELSE 2 * Pow2(k - 1)

RECURSIVE Xor(_, _)
Xor(a, b) ==
    IF a = 0 THEN b
    ELSE IF b = 0 THEN a
    ELSE (((a % 2) + (b % 2)) % 2) + 2 * Xor(a \div 2, b \div 2)

\* h ^ c for a code unit c < 2^16: only the low half changes.
Xor32(h, c) == <<h[1], Xor(h[2], c)>>

\* (h << k) modulo 2^32, for the shift widths fnv1aHash uses (k < 16 or k = 24).
Shl32(h, k) ==
    IF k < 16
    THEN <<(h[1] * Pow2(k) + (h[2] * Pow2(k)) \div Half) % Half,
           (h[2] * Pow2(k)) % Half>>
    ELSE <<(h[2] * Pow2(k - 16)) % Half, 0>>

Add32(a, b) ==
    <<(a[1] + b[1] + (a[2] + b[2]) \div Half) % Half, (a[2] + b[2]) % Half>>

\* Number.prototype.toString(36) of an unsigned 32-bit value: lowercase
\* digits 0-9a-z, most significant first, no padding; zero is "0".
Digit36(d) == IF d < 10 THEN 48 + d ELSE 87 + d

RECURSIVE ToString36Acc(_, _)
ToString36Acc(h, acc) ==
    LET qhi == h[1] \div 36
        t   == (h[1] % 36) * Half + h[2]
        q   == <<qhi, t \div 36>>
        out == <<Digit36(t % 36)>> \o acc
    IN  IF q = <<0, 0>> THEN out ELSE ToString36Acc(q, out)

ToString36(h) == ToString36Acc(h, <<>>)

(***************************************************************************)
(* fnv1aHash (App.jsx 7-14).  In the source the sum of line 11 is a double *)
(* that is only reduced modulo 2^32 by the next ^= (ToInt32) or by the     *)
(* final >>> 0; every term differs from its unsigned value by a multiple   *)
(* of 2^32 and the sum is exact, so the reduction is applied here at once. *)
(***************************************************************************)
FnvOffsetHi == 33052
FnvOffsetLo == 40389

\* FnvStep in the order of FNV-1: multiply, then xor.
FnvStepMultiplyFirst(h, c) ==
    Xor32(Add32(h, Add32(Shl32(h, 1), Add32(Shl32(h, 4),
              Add32(Shl32(h, 7), Add32(Shl32(h, 8), Shl32(h, 24)))))), c)

FnvStep(h, c) ==
    LET x == Xor32(h, c)
    IN  Add32(x, Add32(Shl32(x, 1), Add32(Shl32(x, 4),
            Add32(Shl32(x, 7), Add32(Shl32(x, 8), Shl32(x, 24))))))

RECURSIVE FnvLoop(_, _, _)
FnvLoop(str, i, h) ==
    IF i > Len(str) THEN h ELSE FnvLoop(str, i + 1, FnvStep(h, str[i]))

fnv1aHash(str) == ToString36(FnvLoop(str, 1, <<FnvOffsetHi, FnvOffsetLo>>))

(***************************************************************************)
(* String helpers of the JavaScript runtime, over sequences of code units. *)
(* The character tables are exact on the code units the model uses: ASCII, *)
(* precomposed Hangul syllables, the curly quotes, U+0301 (combining       *)
(* acute), U+00E9, U+210C and the fullwidth forms U+FF01..U+FF5E.          *)
(***************************************************************************)
\* String.prototype.toLowerCase, per code unit.
LowerUnit(c) == IF c >= 65 /\ c <= 90 THEN c + 32
                ELSE IF c >= 65313 /\ c <= 65338 THEN c + 32
                ELSE c

toLowerCase(s) == [i \in 1..Len(s) |-> LowerUnit(s[i])]

\* Compatibility mapping of one code unit (the K of NFKC).
NfkcUnit(c) == IF c >= 65281 /\ c <= 65374 THEN c - 65248
               ELSE IF c = 160 \/ c = 12288 THEN 32
               ELSE IF c = 8460 THEN 72
               ELSE c

\* Canonical composition (the C of NFKC): e + U+0301 composes to U+00E9.
RECURSIVE ComposeSeq(_)
ComposeSeq(s) ==
    IF Len(s) < 2 THEN s
    ELSE IF s[1] = 101 /\ s[2] = 769
         THEN ComposeSeq(<<233>> \o SubSeq(s, 3, Len(s)))
         ELSE <<s[1]>> \o ComposeSeq(Tail(s))

\* String.prototype.normalize('NFKC').
nfkc(s) == ComposeSeq([i \in 1..Len(s) |-> NfkcUnit(s[i])])

\* /["“”'‘’()]+/g, then '[' and ']' (App.jsx 18-20, 29-31): removed entirely.
QuoteBracketUnits == {34, 8220, 8221, 39, 8216, 8217, 40, 41, 91, 93}

\* [\p{P}\p{S}]: Unicode punctuation and symbol categories.
PunctSymbolUnits ==
    (33..47) \cup (58..64) \cup (91..96) \cup (123..126)
        \cup {8216, 8217, 8220, 8221} \cup (65281..65295)

\* \s of a JavaScript regular expression; also what trim() removes.
WhitespaceUnits ==
    (9..13) \cup {32, 160, 5760} \cup (8192..8202)
        \cup {8232, 8233, 8239, 8287, 12288, 65279}

RemoveUnits(s, cls) == SelectSeq(s, LAMBDA c : c \notin cls)

\* s.replace(/[cls]+/g, ' '): every maximal run of cls becomes one space.
RECURSIVE RunsToSpace(_, _)
RunsToSpace(s, cls) ==
    IF s = <<>> THEN <<>>
    ELSE IF s[1] \notin cls THEN <<s[1]>> \o RunsToSpace(Tail(s), cls)
    ELSE IF Len(s) >= 2 /\ s[2] \in cls THEN RunsToSpace(Tail(s), cls)
    ELSE <<32>> \o RunsToSpace(Tail(s), cls)

RECURSIVE TrimStart(_)
TrimStart(s) ==
    IF s # <<>> /\ s[1] \in WhitespaceUnits THEN TrimStart(Tail(s)) ELSE s

RECURSIVE TrimEnd(_)
TrimEnd(s) ==
    IF s # <<>> /\ s[Len(s)] \in WhitespaceUnits
    THEN TrimEnd(SubSeq(s, 1, Len(s) - 1)) ELSE s

trim(s) == TrimEnd(TrimStart(s))

(***************************************************************************)
(* makeId (App.jsx 15-42) and makeIdSimple (App.jsx 44-48).                *)
(***************************************************************************)
fallbackNormalize(s) ==
    trim(RunsToSpace(RemoveUnits(toLowerCase(s), QuoteBracketUnits),
                     WhitespaceUnits))

\* normalize without toLowerCase.
normalizeKeepsCase(s) ==
    trim(RunsToSpace(
           RunsToSpace(RemoveUnits(nfkc(s), QuoteBracketUnits),
                       PunctSymbolUnits),
           WhitespaceUnits))

normalize(s) ==
    trim(RunsToSpace(
           RunsToSpace(RemoveUnits(nfkc(toLowerCase(s)), QuoteBracketUnits),
                       PunctSymbolUnits),
           WhitespaceUnits))

\* The catch of line 35 is taken only in a runtime without Unicode property
\* escapes or String.prototype.normalize; the model runs in one that has them.
UnicodeRuntime == TRUE

Bar == <<124>>

\* makeId hashing the raw fields.
makeIdRaw(korean, english) == fnv1aHash(korean \o Bar \o english)

makeId(korean, english) ==
    IF UnicodeRuntime
    THEN fnv1aHash(normalize(korean) \o Bar \o normalize(english))
    ELSE fnv1aHash(fallbackNormalize(korean) \o Bar \o fallbackNormalize(english))

makeIdSimple(korean, english) ==
    fnv1aHash(toLowerCase(trim(korean)) \o Bar \o toLowerCase(trim(english)))

(***************************************************************************)
(* Rows.  parseCSV (App.jsx 70-79) builds {id, korean, english, audio}     *)
(* with id = makeId(korean, english) and keeps rows whose korean and       *)
(* english are non-empty; it does not remove duplicates.                   *)
(***************************************************************************)
Row(korean, english, audio) ==
    [id |-> makeId(korean, english), korean |-> korean,
     english |-> english, audio |-> audio]

\* "안", "Hi!", audio "a": the legacy simple id differs from the current id.
RowHi == Row(<<50504>>, <<72, 105, 33>>, <<97>>)
\* "안", "hi", audio "b": another spelling of the pair of RowHi, same id.
RowHiPlain == Row(<<50504>>, <<104, 105>>, <<98>>)
\* "녕", "yo", no audio.
RowYo == Row(<<45397>>, <<121, 111>>, <<>>)
\* "녕", "no", with an audio cell whose text is the id of RowHi.
RowNo == Row(<<45397>>, <<110, 111>>, RowHi.id)

Catalog == {RowHi, RowHiPlain, RowYo, RowNo}

RECURSIVE SeqsUpTo(_, _)
SeqsUpTo(S, n) ==
    IF n = 0 THEN {<<>>}
    ELSE LET shorter == SeqsUpTo(S, n - 1)
         IN  shorter \cup {Append(q, x) : q \in shorter, x \in S}

\* What parseCSV can return for the CSV text saved under 'app:dataCSV'.
RowLists == SeqsUpTo(Catalog, MaxRows)

RowIds(rs) == {rs[i].id : i \in 1..Len(rs)}

\* makeIdSimple of every row the model can hold, computed once: the effect
\* calls makeIdSimple(row.korean, row.english) on each run (line 174).
SimpleIdTable ==
    [p \in {<<r.korean, r.english>> : r \in Catalog} |-> makeIdSimple(p[1], p[2])]

SimpleIdOf(row) == SimpleIdTable[<<row.korean, row.english>>]

\* makeId of every row the model can hold, computed once: the id parseCSV,
\* handleAddSave and handleEditSave assign (lines 78, 448, 483).
CurrentIdTable ==
    [p \in {<<r.korean, r.english>> : r \in Catalog} |-> makeId(p[1], p[2])]

CurrentIdOf(row) == CurrentIdTable[<<row.korean, row.english>>]

(***************************************************************************)
(* The studied map: a JavaScript object, here a function from its keys to  *)
(* BOOLEAN.  m[k] of the source is truthy iff k is a key mapped to TRUE.   *)
(***************************************************************************)
EmptyMap == [k \in {} |-> TRUE]

Truthy(m, k) == k \in DOMAIN m /\ m[k]

TrueMap(keys) == [k \in keys |-> TRUE]

\* { ...m, [k]: true }
WithTrue(m, k) == [x \in DOMAIN m \cup {k} |-> IF x = k THEN TRUE ELSE m[x]]

\* const { [k]: _removed, ...rest } = m
Without(m, k) == [x \in DOMAIN m \ {k} |-> m[x]]

\* String(i) for the 0-based position of a row, the key of studied[i].
RECURSIVE Decimal(_)
Decimal(n) ==
    IF n < 10 THEN <<48 + n>> ELSE Decimal(n \div 10) \o <<48 + (n % 10)>>

\* Keys an earlier build can have left in 'studiedRows': current ids,
\* legacy simple ids, audio file names ("" for a row without audio),
\* positions, and an unrelated key "foo".
StrayKey == <<102, 111, 111>>

InitKeys ==
    {r.id : r \in Catalog}
        \cup {makeIdSimple(r.korean, r.english) : r \in Catalog}
        \cup {r.audio : r \in Catalog}
        \cup {Decimal(i) : i \in 0..(MaxRows - 1)}
        \cup {StrayKey}

InitMaps ==
    {TrueMap(K) : K \in {K \in SUBSET InitKeys : Cardinality(K) <= MaxInitKeys}}

\* localStorage.getItem('studiedRows'): absent, text that is not JSON, or
\* the JSON text of a map.
StoredJson(m) == [kind |-> "json", map |-> m]
StoredAbsent == [kind |-> "absent", map |-> EmptyMap]
StoredGarbage == [kind |-> "garbage", map |-> EmptyMap]

\* useState initialiser of studied (App.jsx 101-107).
InitialStudied(st) == IF st.kind = "json" THEN st.map ELSE EmptyMap

(***************************************************************************)
(* The computation of the migration effect (App.jsx 172-186).              *)
(***************************************************************************)
\* MatchSource without the lookup by position.
MatchSourceNoIndex(st, row, i) ==
    IF Truthy(st, row.id) THEN "id"
    ELSE IF Truthy(st, SimpleIdOf(row)) THEN "simple"
    ELSE IF Truthy(st, row.audio) THEN "audio"
    ELSE "none"

\* Lines 174-178: which lookup marks the row at 0-based position i.
MatchSource(st, row, i) ==
    IF Truthy(st, row.id) THEN "id"
    ELSE IF Truthy(st, SimpleIdOf(row)) THEN "simple"
    ELSE IF Truthy(st, row.audio) THEN "audio"
    ELSE IF Truthy(st, Decimal(i)) THEN "index"
    ELSE "none"

\* Lines 172-179: rows.forEach((row, i) => ...), from position n on.
RECURSIVE MigrateFrom(_, _, _, _)
MigrateFrom(rs, st, n, migrated) ==
    IF n > Len(rs) THEN migrated
    ELSE MigrateFrom(rs, st, n + 1,
            IF MatchSource(st, rs[n], n - 1) # "none"
            THEN WithTrue(migrated, rs[n].id) ELSE migrated)

\* Migrated that also keeps the legacy simple id a row was found under.
MigratedKeepsSimple(rs, st) ==
    LET found == {n \in 1..Len(rs) : MatchSource(st, rs[n], n - 1) = "simple"}
    IN  TrueMap(DOMAIN MigrateFrom(rs, st, 1, EmptyMap)
                    \cup {SimpleIdOf(rs[n]) : n \in found})

Migrated(rs, st) == MigrateFrom(rs, st, 1, EmptyMap)

\* SameAll as a comparison of object identity: a fresh object is never the same.
SameAllIdentity(rs, st, migrated) == FALSE

\* SameAll with the size compared against all keys of studied.
SameAllKeys(rs, st, migrated) ==
    /\ Cardinality(DOMAIN st) = Cardinality(DOMAIN migrated)
    /\ \A k \in DOMAIN migrated : Truthy(st, k)

\* Lines 182-186.
SameAll(rs, st, migrated) ==
    LET studiedIdKeys == {k \in DOMAIN st : k \in RowIds(rs)}
        sameSize == Cardinality(studiedIdKeys) = Cardinality(DOMAIN migrated)
    IN  sameSize /\ \A k \in DOMAIN migrated : Truthy(st, k)

\* MigrationRewrites without the early return on an empty map and without
\* the comparison.
MigrationRewritesUnguarded(rs, st) == Len(rs) # 0

\* Lines 168-170 and 187: does the effect call setStudied and setItem?
MigrationRewrites(rs, st) ==
    /\ Len(rs) # 0
    /\ DOMAIN st # {}
    /\ ~SameAll(rs, st, Migrated(rs, st))

(***************************************************************************)
(* State of the App component.                                             *)
(*   rows, studied   React state as seen by the last committed render      *)
(*   stored          localStorage item 'studiedRows'                       *)
(*   pendRows,       state updates queued by setRows / setStudied inside   *)
(*   pendStudied     an effect, applied by the next render                 *)
(*   depRows,        whether the dependency changed in the committed       *)
(*   depStudied      render, i.e. whether the effects listing it run       *)
(*   pc              "load", "migrate", "persist": the effect that runs    *)
(*                   next in the commit; "render": effects flushed;        *)
(*                   "idle": waiting for the user                          *)
(*   lastOp          the last user operation (history)                     *)
(*   migWrote        whether the migration effect of this commit rewrote   *)
(*                   the map (history)                                     *)
(*   writes          rewrites by the migration effect since the last user  *)
(*                   operation, saturating at WritesCap (history)          *)
(* State of the server.                                                    *)
(*   server          the map in data/studied.json                          *)
(* State of a call of the identifier functions on its own.                 *)
(*   txt             the two text fields passed in and what normalize,     *)
(*                   makeId, makeIdSimple and fnv1aHash returned for them  *)
(* State of the server's request handling.                                 *)
(*   srv             data/phrases.csv, the response to the last request,   *)
(*                   and the POST /api/studied/:id requests in flight      *)
(* History.                                                                *)
(*   before          rows and studied as they were when the single user    *)
(*                   operation of OpSpec was made                          *)
(***************************************************************************)
VARIABLES rows, studied, stored, pendRows, pendStudied, depRows, depStudied,
          pc, lastOp, migWrote, writes, server, txt, srv, before

appVars == <<rows, studied, stored, pendRows, pendStudied, depRows,
             depStudied, pc, lastOp, migWrote, writes, server>>

vars == <<appVars, txt, srv, before>>

NoRows == [set |-> FALSE, val |-> <<>>]
NoStudied == [set |-> FALSE, val |-> EmptyMap]
NoOp == [kind |-> "none", id |-> <<>>, flag |-> FALSE]

\* No call of the identifier functions is being followed.
NoText ==
    [phase |-> "off", korean |-> <<>>, english |-> <<>>,
     nkorean |-> <<>>, norm |-> <<>>, norm2 |-> <<>>,
     fnorm |-> <<>>, fnorm2 |-> <<>>,
     id |-> <<>>, simple |-> <<>>, hash |-> <<>>,
     how |-> <<"none", "none">>, prevId |-> <<>>, prevNorm |-> <<>>]

WritesCap == MaxRows + 2

\* data/phrases.csv does not exist until the first write (readCSVFile
\* answers ENOENT with the empty list).
AbsentFile == [exists |-> FALSE, text |-> <<>>]

NoPhrase == [korean |-> <<>>, english |-> <<>>, audio |-> <<>>]

\* No request has been made.
NoUpload == [attached |-> FALSE, text |-> <<>>]

\* No request has been made.
NoRequest ==
    [method |-> "none", path |-> <<>>, param |-> <<>>, key |-> "absent",
     over |-> "no", phrase |-> NoPhrase, csv |-> NoUpload, flag |-> FALSE,
     map |-> EmptyMap]

NoResponse == [req |-> NoRequest, status |-> 0, io |-> FALSE, added |-> 0]

NoSrv == [file |-> AbsentFile, last |-> NoResponse, reqs |-> <<>>]

\* No snapshot is kept.
NoBefore == [set |-> FALSE, rows |-> <<>>, studied |-> EmptyMap]

Init ==
    /\ rows = <<>>
    /\ stored \in {StoredAbsent, StoredGarbage} \cup {StoredJson(m) : m \in InitMaps}
    /\ studied = InitialStudied(stored)
    /\ pendRows = NoRows
    /\ pendStudied = NoStudied
    /\ depRows = TRUE
    /\ depStudied = TRUE
    /\ pc = "load"
    /\ lastOp = NoOp
    /\ migWrote = FALSE
    /\ writes = 0
    /\ server = EmptyMap
    /\ txt = NoText
    /\ srv = NoSrv
    /\ before = NoBefore

\* App.jsx 151-163: the mount effect parses the saved CSV and calls setRows.
LoadEffect ==
    /\ pc = "load"
    /\ \E parsed \in RowLists : pendRows' = [set |-> TRUE, val |-> parsed]
    /\ pc' = "migrate"
    /\ UNCHANGED <<rows, studied, stored, pendStudied, depRows, depStudied,
                   lastOp, migWrote, writes, server, txt, srv, before>>

\* App.jsx 166-194: runs in every commit in which rows or studied changed.
MigrationEffect ==
    /\ pc = "migrate"
    /\ depRows \/ depStudied
    /\ IF MigrationRewrites(rows, studied)
       THEN /\ pendStudied' = [set |-> TRUE, val |-> Migrated(rows, studied)]
            /\ stored' = StoredJson(Migrated(rows, studied))
            /\ migWrote' = TRUE
            /\ writes' = IF writes < WritesCap THEN writes + 1 ELSE writes
       ELSE /\ migWrote' = FALSE
            /\ UNCHANGED <<pendStudied, stored, writes>>
    /\ pc' = "persist"
    /\ UNCHANGED <<rows, studied, pendRows, depRows, depStudied, lastOp, server,
                   txt, srv, before>>

\* PersistEffect without the call of localStorage.setItem.
PersistEffectSkipsWrite ==
    /\ pc = "persist"
    /\ pc' = "render"
    /\ UNCHANGED <<rows, studied, stored, pendRows, pendStudied, depRows,
                   depStudied, lastOp, migWrote, writes, server, txt, srv,
                   before>>

\* App.jsx 196-198: runs in every commit in which studied changed, with the
\* studied of that render.
PersistEffect ==
    /\ pc = "persist"
    /\ stored' = IF depStudied THEN StoredJson(studied) ELSE stored
    /\ pc' = "render"
    /\ UNCHANGED <<rows, studied, pendRows, pendStudied, depRows, depStudied,
                   lastOp, migWrote, writes, server, txt, srv, before>>

\* React applies the queued updates and commits the next render; with
\* nothing queued the component is at rest.
Render ==
    /\ pc = "render"
    /\ IF pendRows.set \/ pendStudied.set
       THEN /\ rows' = IF pendRows.set THEN pendRows.val ELSE rows
            /\ studied' = IF pendStudied.set THEN pendStudied.val ELSE studied
            /\ depRows' = pendRows.set
            /\ depStudied' = pendStudied.set
            /\ pc' = "migrate"
       ELSE /\ depRows' = FALSE
            /\ depStudied' = FALSE
            /\ pc' = "idle"
            /\ UNCHANGED <<rows, studied>>
    /\ pendRows' = NoRows
    /\ pendStudied' = NoStudied
    /\ UNCHANGED <<stored, lastOp, migWrote, writes, server, txt, srv, before>>

\* A user handler that replaced studied by the object next: React re-renders
\* and runs the effects unless next is the very object it already holds.
Commit(next, sameObject, op) ==
    /\ studied' = next
    /\ depStudied' = ~sameObject
    /\ pc' = IF sameObject THEN "idle" ELSE "migrate"
    /\ lastOp' = op
    /\ migWrote' = FALSE
    /\ writes' = 0
    /\ UNCHANGED <<rows, stored, pendRows, pendStudied, depRows, txt, srv, before>>

\* markStudied without the spread of prev.
markStudiedOnly(prev, id) == TrueMap({id})

\* App.jsx 204-206.
markStudiedResult(prev, id) == WithTrue(prev, id)

markStudied(id) ==
    /\ pc = "idle"
    /\ Commit(markStudiedResult(studied, id), FALSE,
              [kind |-> "mark", id |-> id, flag |-> Truthy(studied, id)])

\* unmarkStudied storing false under the key.
unmarkStudiedFalse(prev, id) ==
    IF ~Truthy(prev, id) THEN prev ELSE [prev EXCEPT ![id] = FALSE]

\* unmarkStudied returning prev on both paths.
unmarkStudiedKeeps(prev, id) == prev

\* App.jsx 207-213.
unmarkStudiedResult(prev, id) ==
    IF ~Truthy(prev, id) THEN prev ELSE Without(prev, id)

unmarkStudied(id) ==
    /\ pc = "idle"
    /\ Commit(unmarkStudiedResult(studied, id), ~Truthy(studied, id),
              [kind |-> "unmark", id |-> id, flag |-> Truthy(studied, id)])

\* clearAllStudied without the confirmation.
clearAllStudiedUnasked(prev, ok) == EmptyMap

\* App.jsx 562-572: ok is the answer to window.confirm.
clearAllStudiedResult(prev, ok) ==
    IF DOMAIN prev = {} THEN prev
    ELSE IF ~ok THEN prev
    ELSE EmptyMap

clearAllStudied(ok) ==
    /\ pc = "idle"
    /\ DOMAIN studied # {}
    /\ Commit(clearAllStudiedResult(studied, ok), ~ok,
              [kind |-> "clear", id |-> <<>>, flag |-> ok])

(***************************************************************************)
(* Handlers that change the rows (add, edit, delete, import).              *)
(***************************************************************************)
\* A handler that called setRows and setStudied: React re-renders and runs
\* the effects of whichever state object was replaced.
CommitRows(nextRows, sameRows, nextStudied, sameStudied, op) ==
    /\ rows' = nextRows
    /\ studied' = nextStudied
    /\ depRows' = ~sameRows
    /\ depStudied' = ~sameStudied
    /\ pc' = IF sameRows /\ sameStudied THEN "idle" ELSE "migrate"
    /\ lastOp' = op
    /\ migWrote' = FALSE
    /\ writes' = 0
    /\ UNCHANGED <<stored, pendRows, pendStudied, txt, srv, before>>

HasId(rs, id) == \E i \in 1..Len(rs) : rs[i].id = id

\* prev.findIndex(r => r.id === id), 1-based; 0 when there is none.
FindIndex(rs, id) ==
    IF HasId(rs, id)
    THEN CHOOSE i \in 1..Len(rs) :
            rs[i].id = id /\ \A j \in 1..(i - 1) : rs[j].id # id
    ELSE 0

\* What the add dialog can hold after trim(): Korean and English text.  The
\* new row has no audio (App.jsx 449).
AddRows == {Row(r.korean, r.english, <<>>) : r \in {RowHi, RowYo}}

\* handleAddSaveResult without the look for a row with the id of the new one.
handleAddSaveResultUnchecked(prev, newRow) == <<newRow>> \o prev

\* App.jsx 435-465.
handleAddSaveResult(prev, newRow) ==
    IF HasId(prev, newRow.id) THEN prev ELSE <<newRow>> \o prev

handleAddSave(newRow) ==
    /\ pc = "idle"
    /\ HasId(rows, newRow.id) \/ Len(rows) < MaxRows
    /\ CommitRows(handleAddSaveResult(rows, newRow), HasId(rows, newRow.id),
                  studied, TRUE,
                  [kind |-> "add", id |-> newRow.id,
                   flag |-> ~HasId(rows, newRow.id)])

\* App.jsx 485-491: the edit is refused when the row is gone or when the new
\* id belongs to a different row.
EditApplies(prev, editRowId, updated) ==
    /\ HasId(prev, editRowId)
    /\ ~(HasId(prev, updated.id) /\ updated.id # editRowId)

\* App.jsx 492-494.
handleEditSaveRows(prev, editRowId, updated) ==
    IF EditApplies(prev, editRowId, updated)
    THEN [prev EXCEPT ![FindIndex(prev, editRowId)] = updated]
    ELSE prev

\* handleEditSaveStudied keeping the old key next to the new one.
handleEditSaveStudiedKeepsOld(prevStudied, editRowId, newId) ==
    IF newId = editRowId \/ ~Truthy(prevStudied, editRowId) THEN prevStudied
    ELSE WithTrue(prevStudied, newId)

\* App.jsx 497-502, called when the edit applies.
handleEditSaveStudied(prevStudied, editRowId, newId) ==
    IF newId = editRowId \/ ~Truthy(prevStudied, editRowId) THEN prevStudied
    ELSE WithTrue(Without(prevStudied, editRowId), newId)

\* App.jsx 478-527: editRowId is the row the dialog was opened on; updated
\* holds the trimmed fields of the dialog and id = makeId(k, e).
handleEditSave(editRowId, updated) ==
    /\ pc = "idle"
    /\ LET applies == EditApplies(rows, editRowId, updated)
           nextStudied ==
               IF applies
               THEN handleEditSaveStudied(studied, editRowId, updated.id)
               ELSE studied
       IN  CommitRows(handleEditSaveRows(rows, editRowId, updated), ~applies,
                      nextStudied,
                      ~(applies /\ updated.id # editRowId
                          /\ Truthy(studied, editRowId)),
                      [kind |-> "edit", id |-> editRowId, flag |-> applies])

\* prevRows.filter(r => r.id !== id)
RECURSIVE FilterOut(_, _)
FilterOut(rs, id) ==
    IF rs = <<>> THEN <<>>
    ELSE IF Head(rs).id = id THEN FilterOut(Tail(rs), id)
    ELSE <<Head(rs)>> \o FilterOut(Tail(rs), id)

\* App.jsx 575-599: ok is the answer to window.confirm.
deleteRow(id, ok) ==
    /\ pc = "idle"
    /\ IF ok
       THEN CommitRows(FilterOut(rows, id), FALSE,
                       unmarkStudiedResult(studied, id), ~Truthy(studied, id),
                       [kind |-> "delete", id |-> id, flag |-> TRUE])
       ELSE CommitRows(rows, TRUE, studied, TRUE,
                       [kind |-> "delete", id |-> id, flag |-> FALSE])

\* s.replace(/^"+|"+$/g, '')
RECURSIVE StripLeading(_, _)
StripLeading(s, cls) ==
    IF s # <<>> /\ Head(s) \in cls THEN StripLeading(Tail(s), cls) ELSE s

RECURSIVE StripTrailing(_, _)
StripTrailing(s, cls) ==
    IF s # <<>> /\ s[Len(s)] \in cls
    THEN StripTrailing(SubSeq(s, 1, Len(s) - 1), cls)
    ELSE s

StripEdgeQuotes(s) == StripTrailing(StripLeading(s, {34}), {34})

\* App.jsx 770: s.replace(/^\s*-+\s*/, '').replace(/\s*-+\s*$/, '')
stripEdgeHyphens(s) ==
    LET lead == TrimStart(s)
        front == IF lead # <<>> /\ Head(lead) = 45
                 THEN TrimStart(StripLeading(lead, {45}))
                 ELSE s
        tail == TrimEnd(front)
    IN  IF tail # <<>> /\ tail[Len(tail)] = 45
        THEN TrimEnd(StripTrailing(tail, {45}))
        ELSE front

\* App.jsx 764-769: the id is kept, the three cells are cleaned again.
sanitizeRow(r) ==
    [id |-> r.id,
     korean |-> stripEdgeHyphens(trim(StripEdgeQuotes(r.korean))),
     english |-> stripEdgeHyphens(trim(StripEdgeQuotes(r.english))),
     audio |-> stripEdgeHyphens(trim(StripEdgeQuotes(r.audio)))]

\* new Map(entries): an entry whose key is already present replaces the
\* value and keeps the position of the first one.
MapSet(m, r) ==
    IF HasId(m, r.id)
    THEN [i \in 1..Len(m) |-> IF m[i].id = r.id THEN r ELSE m[i]]
    ELSE Append(m, r)

RECURSIVE MapOfRows(_, _)
MapOfRows(m, rs) ==
    IF rs = <<>> THEN m ELSE MapOfRows(MapSet(m, sanitizeRow(Head(rs))), Tail(rs))

\* MapAddMissing without the test map.has(s.id).
RECURSIVE MapAddAll(_, _)
MapAddAll(m, rs) ==
    IF rs = <<>> THEN m
    ELSE MapAddAll(Append(m, sanitizeRow(Head(rs))), Tail(rs))

\* if (!map.has(s.id)) map.set(s.id, s)
RECURSIVE MapAddMissing(_, _)
MapAddMissing(m, rs) ==
    IF rs = <<>> THEN m
    ELSE MapAddMissing(IF HasId(m, Head(rs).id) THEN m
                       ELSE Append(m, sanitizeRow(Head(rs))),
                       Tail(rs))

\* App.jsx 771-779.
Merged(prev, parsed) == MapAddMissing(MapOfRows(<<>>, prev), parsed)

\* App.jsx 758-794: parsed is parseCSV of the chosen file; setRows(merged)
\* always passes a new array.
handleFileChange(parsed) ==
    /\ pc = "idle"
    /\ Len(Merged(rows, parsed)) <= MaxRows
    /\ CommitRows(Merged(rows, parsed), FALSE, studied, TRUE,
                  [kind |-> "import", id |-> <<>>, flag |-> TRUE])

(***************************************************************************)
(* The server's progress endpoints (authenticated server).                 *)
(***************************************************************************)
\* POST /api/studied/:id with body {studied: isStudied}.
postStudied(data, id, isStudied) ==
    IF isStudied THEN WithTrue(data, id) ELSE Without(data, id)

\* DELETE /api/studied.
deleteStudied(data) == EmptyMap

\* The buttons of a row call markStudied / unmarkStudied with that row's id.
Next ==
    \/ LoadEffect
    \/ MigrationEffect
    \/ PersistEffect
    \/ Render
    \/ \E id \in RowIds(rows) : markStudied(id) /\ UNCHANGED server
    \/ \E id \in RowIds(rows) : unmarkStudied(id) /\ UNCHANGED server
    \/ \E ok \in BOOLEAN : clearAllStudied(ok) /\ UNCHANGED server

Spec == Init /\ [][Next]_vars

\* The effects of a commit are flushed before the next event is handled.
Effects == LoadEffect \/ MigrationEffect \/ PersistEffect \/ Render

FairSpec == Spec /\ WF_vars(Effects)

\* The progress buttons with the store behind the HTTP API receiving the
\* same operation: studiedAPI.updateItem(id, true / false) and clearAll().
markBoth(id) == markStudied(id) /\ server' = postStudied(server, id, TRUE)

unmarkBoth(id) == unmarkStudied(id) /\ server' = postStudied(server, id, FALSE)

clearBoth(ok) ==
    /\ clearAllStudied(ok)
    /\ server' = IF ok THEN deleteStudied(server) ELSE server

ApiNext ==
    \/ MigrationEffect
    \/ PersistEffect
    \/ Render
    \/ \E id \in RowIds(rows) : markBoth(id)
    \/ \E id \in RowIds(rows) : unmarkBoth(id)
    \/ \E ok \in BOOLEAN : clearBoth(ok)

\* The whole application: the progress buttons and the handlers that change
\* the rows.
AppNext ==
    \/ Next
    \/ \E r \in AddRows : handleAddSave(r) /\ UNCHANGED server
    \/ \E id \in RowIds(rows), r \in Catalog :
          handleEditSave(id, r) /\ UNCHANGED server
    \/ \E id \in RowIds(rows), ok \in BOOLEAN :
          deleteRow(id, ok) /\ UNCHANGED server
    \/ \E parsed \in RowLists : handleFileChange(parsed) /\ UNCHANGED server

AppSpec == Init /\ [][AppNext]_vars

\* Both stores start from the same map, with the application at rest on it:
\* the rows are loaded and the migration effect has nothing to rewrite.
ApiInit ==
    /\ rows \in RowLists
    /\ studied \in InitMaps
    /\ ~MigrationRewrites(rows, studied)
    /\ stored = StoredJson(studied)
    /\ server = studied
    /\ pendRows = NoRows
    /\ pendStudied = NoStudied
    /\ depRows = FALSE
    /\ depStudied = FALSE
    /\ pc = "idle"
    /\ lastOp = NoOp
    /\ migWrote = FALSE
    /\ writes = 0
    /\ txt = NoText
    /\ srv = NoSrv
    /\ before = NoBefore

ApiSpec == ApiInit /\ [][ApiNext]_vars

(***************************************************************************)
(* The identifier functions on their own: normalize, makeId, makeIdSimple  *)
(* and fnv1aHash applied to a pair of text fields, then applied again to   *)
(* another spelling of the same pair.                                      *)
(***************************************************************************)
MaxText == 3
MaxPhrases == 2
MaxInFlight == 2

\* "e", " ", ".", "'", U+0301 (combining acute accent), U+210C.
TextUnits == {101, 32, 46, 39, 769, 8460}

\* "hello" and "안녕", the texts of the README's example.
Hello == <<104, 101, 108, 108, 111>>
Annyeong == <<50504, 45397>>

EnglishTexts == SeqsUpTo(TextUnits, MaxText) \cup {Hello}
KoreanTexts == {Annyeong}

UpperUnit(c) == IF c >= 97 /\ c <= 122 THEN c - 32 ELSE c

RECURSIVE DoubleSpaces(_)
DoubleSpaces(s) ==
    IF s = <<>> THEN <<>>
    ELSE IF Head(s) \in WhitespaceUnits
         THEN <<Head(s), Head(s)>> \o DoubleSpaces(Tail(s))
         ELSE <<Head(s)>> \o DoubleSpaces(Tail(s))

\* Another spelling of a text field: other letter case, spaces around it,
\* repeated spaces, enclosing brackets, or its quote/bracket or
\* punctuation/symbol characters left out.
Reformatted(kind, s) ==
    CASE kind = "same" -> s
      [] kind = "upper" -> [i \in 1..Len(s) |-> UpperUnit(s[i])]
      [] kind = "capital" ->
            IF s = <<>> THEN s ELSE <<UpperUnit(Head(s))>> \o Tail(s)
      [] kind = "pad" -> <<32, 32>> \o s \o <<32>>
      [] kind = "spaces" -> DoubleSpaces(s)
      [] kind = "paren" -> <<40>> \o s \o <<41>>
      [] kind = "noquotes" -> RemoveUnits(s, QuoteBracketUnits)
      [] kind = "nopunct" -> RemoveUnits(s, PunctSymbolUnits)

KoreanKinds == {"same", "pad", "paren"}
EnglishKinds ==
    {"same", "upper", "capital", "pad", "spaces", "paren", "noquotes", "nopunct"}

TextInput(k, e) ==
    [NoText EXCEPT !.phase = "input", !.korean = k, !.english = e]

TextInit ==
    /\ txt \in {TextInput(k, e) : k \in KoreanTexts, e \in EnglishTexts}
    /\ rows = <<>>
    /\ stored = StoredAbsent
    /\ studied = EmptyMap
    /\ server = EmptyMap
    /\ pendRows = NoRows
    /\ pendStudied = NoStudied
    /\ depRows = FALSE
    /\ depStudied = FALSE
    /\ pc = "idle"
    /\ lastOp = NoOp
    /\ migWrote = FALSE
    /\ writes = 0
    /\ srv = NoSrv
    /\ before = NoBefore

\* normalize on its two paths, each applied once and then to its own result.
ApplyNormalize ==
    /\ txt.phase = "input"
    /\ txt' = [txt EXCEPT !.phase = "normalized",
                          !.nkorean = normalize(txt.korean),
                          !.norm = normalize(txt.english),
                          !.norm2 = normalize(normalize(txt.english)),
                          !.fnorm = fallbackNormalize(txt.english),
                          !.fnorm2 =
                              fallbackNormalize(fallbackNormalize(txt.english))]
    /\ UNCHANGED <<appVars, srv, before>>

\* makeId and makeIdSimple of the pair, fnv1aHash of the English text.
ApplyMakeId ==
    /\ txt.phase = "normalized"
    /\ txt' = [txt EXCEPT !.phase = "derived",
                          !.id = makeId(txt.korean, txt.english),
                          !.simple = makeIdSimple(txt.korean, txt.english),
                          !.hash = fnv1aHash(txt.english)]
    /\ UNCHANGED <<appVars, srv, before>>

\* The functions are called again on another spelling of the pair (on the
\* same texts for "same", "same"); the first id is kept for comparison.
Reformat(kk, ke) ==
    /\ txt.phase = "derived"
    /\ txt.how = <<"none", "none">>
    /\ txt' = [NoText EXCEPT !.phase = "input",
                             !.korean = Reformatted(kk, txt.korean),
                             !.english = Reformatted(ke, txt.english),
                             !.how = <<kk, ke>>,
                             !.prevId = txt.id,
                             !.prevNorm = <<txt.nkorean, txt.norm>>]
    /\ UNCHANGED <<appVars, srv, before>>

TextNext ==
    \/ ApplyNormalize
    \/ ApplyMakeId
    \/ \E kk \in KoreanKinds, ke \in EnglishKinds : Reformat(kk, ke)

TextSpec == TextInit /\ [][TextNext]_vars

(***************************************************************************)
(* Claims.                                                                 *)
(***************************************************************************)
DistinctIds(rs) == Cardinality(RowIds(rs)) = Len(rs)

\* The map the migration effect of this commit leaves: the one it passed to
\* setStudied, or the unchanged studied.  Meaningful at pc = "persist".
AfterMigration == IF migWrote THEN pendStudied.val ELSE studied

\* C1: for a non-empty list of rows (with pairwise distinct ids, so that a
\* row is the only one with its id) and a non-empty map P, once the
\* migration effect has run the row at position i is studied under its id
\* iff P[row.id], or P[legacy simple id], or row.audio is non-empty and
\* P[row.audio], or P[i]; a row with empty audio is never marked through
\* the audio lookup.
C1_MarkedIffLookup ==
    (pc = "persist" /\ Len(rows) # 0 /\ DOMAIN studied # {} /\ DistinctIds(rows))
    => \A i \in 1..Len(rows) :
          Truthy(AfterMigration, rows[i].id)
          <=> \/ Truthy(studied, rows[i].id)
              \/ Truthy(studied, makeIdSimple(rows[i].korean, rows[i].english))
              \/ (rows[i].audio # <<>> /\ Truthy(studied, rows[i].audio))
              \/ Truthy(studied, Decimal(i - 1))

\* C2: after migration has run on a non-empty list of rows, every key of
\* the studied map, in memory and in localStorage, is the id of a row.
C2_OnlyCurrentIds ==
    (pc = "idle" /\ Len(rows) # 0)
    => /\ DOMAIN studied \subseteq RowIds(rows)
       /\ DOMAIN stored.map \subseteq RowIds(rows)

\* C3: after unmarkStudied(id) on a studied row and the effects having run
\* to rest, the row is not studied, whatever other keys the map held.
C3_UnmarkSticks ==
    (pc = "idle" /\ lastOp.kind = "unmark" /\ lastOp.flag)
    => ~Truthy(studied, lastOp.id)

\* C4: the migration effect, which re-runs whenever rows or studied change
\* and may itself replace studied, always comes to rest: from every state in
\* which effects are still to run, a state with none to run is reached.
C4_MigrationQuiesces == (pc # "idle") ~> (pc = "idle")

\* Two rewrites in a row by the migration effect, and then rest.
C4_Witness == pc = "idle" /\ writes >= 2

\* C5: the migration effect neither calls setStudied nor writes
\* 'studiedRows' whenever the migrated map it computes has exactly the keys
\* of the input map that are ids of rows.
C5_NoOpWhenSame ==
    (/\ pc = "persist"
     /\ DOMAIN Migrated(rows, studied) = DOMAIN studied \cap RowIds(rows))
    => /\ ~migWrote
       /\ ~pendStudied.set
       /\ AfterMigration = studied

\* The effect ran on rows and a map holding a row id and a stray key, and
\* left the map alone.
C5_Witness ==
    /\ pc = "persist"
    /\ ~migWrote
    /\ Len(rows) # 0
    /\ DOMAIN Migrated(rows, studied) # {}
    /\ DOMAIN Migrated(rows, studied) = DOMAIN studied \cap RowIds(rows)
    /\ ~(DOMAIN studied \subseteq RowIds(rows))

\* C6: migration is idempotent: computing the migrated map of an already
\* migrated map gives that map again, for every list of rows and every map.
C6_MigrationIdempotent ==
    Migrated(rows, Migrated(rows, studied)) = Migrated(rows, studied)

\* The keys of the older schemes for the row at 1-based position n.
LegacyKeys(rs, n) ==
    {makeIdSimple(rs[n].korean, rs[n].english), Decimal(n - 1)}
        \cup (IF rs[n].audio # <<>> THEN {rs[n].audio} ELSE {})

\* The map uses only legacy keys and every row is studied under exactly one.
OneLegacyKeyEach(rs, st) ==
    /\ Len(rs) # 0
    /\ \A k \in DOMAIN st : st[k] /\ \E n \in 1..Len(rs) : k \in LegacyKeys(rs, n)
    /\ \A n \in 1..Len(rs) : Cardinality(LegacyKeys(rs, n) \cap DOMAIN st) = 1

\* C7 as stated: under OneLegacyKeyEach the migrated map has as many true
\* entries as there are rows.
C7_CountEqualsRows ==
    OneLegacyKeyEach(rows, studied)
    => Cardinality({k \in DOMAIN Migrated(rows, studied) :
                        Migrated(rows, studied)[k]}) = Len(rows)

\* C7 amended: under OneLegacyKeyEach the migrated map has exactly one true
\* entry for each distinct id among the rows, and no other entry.
C7_OneEntryPerId ==
    OneLegacyKeyEach(rows, studied)
    => /\ DOMAIN Migrated(rows, studied) = RowIds(rows)
       /\ \A k \in RowIds(rows) : Migrated(rows, studied)[k]
       /\ Cardinality(DOMAIN Migrated(rows, studied)) = Cardinality(RowIds(rows))

\* Two rows sharing an id, each studied under its own legacy key.
C7_Witness ==
    /\ OneLegacyKeyEach(rows, studied)
    /\ Len(rows) >= 2
    /\ ~DistinctIds(rows)
    /\ Cardinality(DOMAIN studied) >= 2

\* C8: markStudied(id) leaves a map in which id is true and every other
\* entry is as before; when id was already true the map equals the old one.
C8_MarkFrame ==
    [][(pc = "idle" /\ lastOp'.kind = "mark")
       => /\ Truthy(studied', lastOp'.id)
          /\ DOMAIN studied' = DOMAIN studied \cup {lastOp'.id}
          /\ \A k \in DOMAIN studied \ {lastOp'.id} : studied'[k] = studied[k]
          /\ (Truthy(studied, lastOp'.id) => studied' = studied)]_vars

\* markStudied has acted on an id that was already true, among other keys.
C8_Witness ==
    /\ pc = "migrate"
    /\ lastOp.kind = "mark"
    /\ lastOp.flag
    /\ Cardinality(DOMAIN studied) >= 2

\* C9: unmarkStudied(id) removes key id when it is present and leaves every
\* other entry unchanged; when id is absent it returns the same map (no
\* new object, hence no re-render).
C9_UnmarkFrame ==
    [][(pc = "idle" /\ lastOp'.kind = "unmark")
       => IF Truthy(studied, lastOp'.id)
          THEN /\ DOMAIN studied' = DOMAIN studied \ {lastOp'.id}
               /\ \A k \in DOMAIN studied' : studied'[k] = studied[k]
          ELSE /\ studied' = studied
               /\ pc' = "idle"]_vars

\* unmarkStudied has removed a key and left another one in place.
C9_Witness ==
    /\ pc = "migrate"
    /\ lastOp.kind = "unmark"
    /\ lastOp.flag
    /\ lastOp.id \notin DOMAIN studied
    /\ DOMAIN studied # {}

\* C10: clearAllStudied empties the map only when the user confirms; the
\* map then is {} and stays {} while the migration and persistence effects
\* run, and {} is what is stored at rest; when the user declines, the map
\* is unchanged.
C10_ClearAll ==
    [][/\ (pc = "idle" /\ lastOp'.kind = "clear")
          => IF lastOp'.flag
             THEN studied' = EmptyMap
             ELSE studied' = studied /\ pc' = "idle"
       /\ (pc # "idle" /\ lastOp.kind = "clear" /\ lastOp.flag)
          => /\ studied' = EmptyMap
             /\ ~pendStudied'.set
             /\ pc' = "idle" => stored' = StoredJson(EmptyMap)]_vars

\* A confirmed clear-all on a non-empty list of rows, effects at rest.
C10_Witness ==
    /\ pc = "idle"
    /\ lastOp.kind = "clear"
    /\ lastOp.flag
    /\ Len(rows) # 0
    /\ studied = EmptyMap
    /\ stored = StoredJson(EmptyMap)


\* C11: marking an id and then unmarking it gives back the map p, for every
\* id and every map p.
C11_RoundTrip ==
    \A id \in InitKeys \cup RowIds(rows) :
        unmarkStudiedResult(markStudiedResult(studied, id), id) = studied

\* C11 (amended): marking an id that p does not hold and then unmarking it
\* gives back p; for an id p already holds the pair removes the entry.
C11_RoundTripAbsent ==
    \A id \in InitKeys \cup RowIds(rows) :
        /\ id \notin DOMAIN studied
              => unmarkStudiedResult(markStudiedResult(studied, id), id) = studied
        /\ Truthy(studied, id)
              => unmarkStudiedResult(markStudiedResult(studied, id), id)
                    = Without(studied, id)

C11_Witness ==
    /\ pc = "idle"
    /\ DOMAIN studied # {}
    /\ \E id \in RowIds(rows) :
          /\ id \notin DOMAIN studied
          /\ markStudiedResult(studied, id) # studied
          /\ unmarkStudiedResult(markStudiedResult(studied, id), id) = studied


AllTrue(m) == \A k \in DOMAIN m : m[k]

\* C12: starting from a map whose values are all true, after any sequence of
\* mark, unmark, clear-all, add, edit, delete, import and migration steps
\* every value of the in-memory map, of the map queued by an effect and of
\* the map in localStorage is true, the server's POST and DELETE applied to
\* such a map leave only true values, and a row that is not studied has no
\* key.
C12_NoFalseEntry ==
    /\ AllTrue(studied)
    /\ AllTrue(pendStudied.val)
    /\ AllTrue(stored.map)
    /\ AllTrue(deleteStudied(studied))
    /\ \A id \in RowIds(rows), isStudied \in BOOLEAN :
          AllTrue(postStudied(studied, id, isStudied))
    /\ \A id \in RowIds(rows) : ~Truthy(studied, id) => id \notin DOMAIN studied

C12_Witness ==
    /\ pc = "idle"
    /\ lastOp.kind = "unmark"
    /\ lastOp.flag
    /\ HasId(rows, lastOp.id)
    /\ lastOp.id \notin DOMAIN studied
    /\ DOMAIN studied # {}
    /\ stored = StoredJson(studied)


KeysAreIds(rs, st) == DOMAIN st \subseteq RowIds(rs)

\* C13: from a state with a non-empty list of rows in which every key of
\* the map is the id of a current row, every step (a user operation: mark,
\* unmark, add, edit, delete, import, clear all; or an effect running
\* afterwards) leads to a state in which every key of the map is the id of
\* a current row; so this still holds when the effects have come to rest.
C13_KeysStayIds ==
    [][(Len(rows) # 0 /\ KeysAreIds(rows, studied))
          => KeysAreIds(rows', studied')]_vars

C13_Witness ==
    /\ pc = "idle"
    /\ lastOp.kind = "edit"
    /\ lastOp.flag
    /\ ~HasId(rows, lastOp.id)
    /\ DOMAIN studied # {}
    /\ KeysAreIds(rows, studied)


\* C14: makeId called again on the same pair returns the same id, and two
\* pairs whose normalize(korean) and normalize(english) are equal get the
\* same id, whatever their original formatting.
C14_IdFromNormalizedPair ==
    (txt.phase = "derived" /\ txt.how # <<"none", "none">>)
        => /\ txt.how = <<"same", "same">> => txt.id = txt.prevId
           /\ txt.prevNorm = <<txt.nkorean, txt.norm>> => txt.id = txt.prevId

C14_Witness ==
    /\ txt.phase = "derived"
    /\ txt.how = <<"pad", "capital">>
    /\ txt.english # Hello
    /\ txt.english # txt.norm
    /\ txt.prevNorm = <<txt.nkorean, txt.norm>>
    /\ txt.id = txt.prevId


\* Reference FNV-1a on <<hi, lo>> pairs: xor by comparing bits, product
\* with the prime 16777619 = 2^24 + 403 reduced modulo 2^32.
Bits(x) == {i \in 0..15 : (x \div Pow2(i)) % 2 = 1}

RECURSIVE SumPow2(_)
SumPow2(S) ==
    IF S = {} THEN 0
    ELSE LET i == CHOOSE j \in S : TRUE IN Pow2(i) + SumPow2(S \ {i})

RefXor(h, c) ==
    <<h[1], SumPow2((Bits(h[2]) \ Bits(c)) \cup (Bits(c) \ Bits(h[2])))>>

RefTimesPrime(h) ==
    <<((h[2] * 403) \div Half + h[1] * 403 + h[2] * 256) % Half,
      (h[2] * 403) % Half>>

RECURSIVE RefFnv(_, _)
RefFnv(str, h) ==
    IF str = <<>> THEN h
    ELSE RefFnv(Tail(str), RefTimesPrime(RefXor(h, Head(str))))

RefHash(str) == RefFnv(str, <<FnvOffsetHi, FnvOffsetLo>>)

\* The value a base-36 numeral denotes, as <<hi, lo>>; hi is not reduced,
\* so a numeral of 2^32 or more denotes no pair of two 16-bit halves.
DigitValue(c) == IF c >= 48 /\ c <= 57 THEN c - 48 ELSE c - 87

RECURSIVE Parse36(_, _)
Parse36(s, acc) ==
    IF s = <<>> THEN acc
    ELSE LET lo == acc[2] * 36 + DigitValue(Head(s))
         IN  Parse36(Tail(s), <<acc[1] * 36 + lo \div Half, lo % Half>>)

\* Lowercase base-36 digits, at least one, no leading zero except in "0".
IsNumeral36(s) ==
    /\ s # <<>>
    /\ \A i \in 1..Len(s) : s[i] \in (48..57) \cup (97..122)
    /\ Head(s) = 48 => Len(s) = 1

IsUint32(h) == h[1] \in 0..(Half - 1) /\ h[2] \in 0..(Half - 1)

RendersReference(out, str) ==
    /\ IsNumeral36(out)
    /\ IsUint32(RefHash(str))
    /\ Parse36(out, <<0, 0>>) = RefHash(str)

\* C15: for every input string, fnv1aHash returns the lowercase unpadded
\* base-36 numeral of the 32-bit FNV-1a value of its UTF-16 code units
\* (offset basis 0x811c9dc5, xor then product with 16777619 modulo 2^32),
\* a value in [0, 2^32); this holds for the hash of a text field and for
\* the hash of the key that makeId builds.
C15_HashIsFnv1a ==
    txt.phase = "derived"
        => /\ RendersReference(txt.hash, txt.english)
           /\ RendersReference(txt.id, txt.nkorean \o Bar \o txt.norm)

C15_Witness ==
    /\ txt.phase = "derived"
    /\ Len(txt.english) = MaxText
    /\ \E i \in 1..Len(txt.english) : txt.english[i] > 255
    /\ RendersReference(txt.hash, txt.english)
    /\ Len(txt.hash) >= 6


\* C16: normalize is idempotent on both paths: normalize(normalize(x)) =
\* normalize(x) on the Unicode path, and the same for the fallback path.
C16_NormalizeIdempotent ==
    txt.phase \in {"normalized", "derived"}
        => /\ txt.norm2 = txt.norm
           /\ txt.fnorm2 = txt.fnorm


C18_NeverLegacyId ==
    /\ \A i \in 1..Len(rows) : rows[i].id # SimpleIdOf(rows[i])
    /\ lastOp.kind = "mark"
          => \A i \in 1..Len(rows) : lastOp.id # SimpleIdOf(rows[i])

\* C18 (amended): makeIdSimple is only read, by the lookup of the migration
\* effect.  In every step the id of every row is makeId of its fields,
\* every key a step adds to the map is the current id of a row, and the map
\* the migration effect passes to setStudied has only current ids as keys;
\* a legacy identifier appears as an id or as a written key only where it
\* equals the current id of a row.
C18_LegacyOnlyLookedUp ==
    [][/\ \A i \in 1..Len(rows') : rows'[i].id = CurrentIdOf(rows'[i])
       /\ \A k \in DOMAIN studied' \ DOMAIN studied : k \in RowIds(rows')
       /\ pendStudied'.set => DOMAIN pendStudied'.val \subseteq RowIds(rows')
      ]_vars

C18_Witness ==
    /\ pc = "idle"
    /\ lastOp = NoOp
    /\ writes >= 1
    /\ \E i \in 1..Len(rows) :
          /\ rows[i].id # SimpleIdOf(rows[i])
          /\ Truthy(studied, rows[i].id)
          /\ SimpleIdOf(rows[i]) \notin DOMAIN studied


\* C19: while 'studiedRows' is missing or is not JSON the map is {}; and
\* with the map {} the migration effect marks nothing and writes nothing
\* (no setStudied, no setItem), and the map is still {} after every effect
\* and every render, for every list of rows.
C19_EmptyStaysEmpty ==
    /\ [](stored.kind # "json" => studied = EmptyMap)
    /\ [][(pc = "migrate" /\ studied = EmptyMap)
             => /\ ~migWrote'
                /\ stored' = stored
                /\ pendStudied' = pendStudied
                /\ studied' = EmptyMap]_vars
    /\ [][(pc \in {"load", "persist", "render"} /\ studied = EmptyMap)
             => (studied' = EmptyMap /\ ~pendStudied'.set)]_vars

C19_Witness ==
    /\ pc = "persist"
    /\ lastOp = NoOp
    /\ Len(rows) = MaxRows
    /\ studied = EmptyMap
    /\ stored = StoredJson(EmptyMap)
    /\ ~migWrote
    /\ ~pendStudied.set


\* C20: the two stores start from the same map and receive the same mark,
\* unmark and clear-all operations; whenever the application is at rest
\* after an operation, the map it holds equals the map the server stores.
C20_StoresAgree == pc = "idle" => studied = server


(***************************************************************************)
(* The server (authenticated version): data/phrases.csv as text, and the   *)
(* two functions that write and read it.                                   *)
(***************************************************************************)
QuoteUnit == 34
CommaUnit == 44
HyphenUnit == 45
NewlineUnit == 10
ReturnUnit == 13

\* 'korean,english,audio'
HeaderLine ==
    <<107, 111, 114, 101, 97, 110, 44,
      101, 110, 103, 108, 105, 115, 104, 44,
      97, 117, 100, 105, 111>>

\* 'korean'
KoreanWord == <<107, 111, 114, 101, 97, 110>>

\* s.replace(/"/g, '""')
RECURSIVE DoubleQuotes(_)
DoubleQuotes(s) ==
    IF s = <<>> THEN <<>>
    ELSE (IF Head(s) = QuoteUnit THEN <<QuoteUnit, QuoteUnit>> ELSE <<Head(s)>>)
             \o DoubleQuotes(Tail(s))

\* esc of stringifyCSV.
esc(s) ==
    LET needs == \E i \in 1..Len(s) : s[i] \in {QuoteUnit, CommaUnit, NewlineUnit}
        v == DoubleQuotes(s)
    IN  IF needs THEN <<QuoteUnit>> \o v \o <<QuoteUnit>> ELSE v

\* parts.join(sep)
RECURSIVE Join(_, _)
Join(parts, sep) ==
    IF parts = <<>> THEN <<>>
    ELSE IF Len(parts) = 1 THEN Head(parts)
    ELSE Head(parts) \o sep \o Join(Tail(parts), sep)

stringifyCSV(phrases) ==
    LET body == [i \in 1..Len(phrases) |->
                    Join(<<esc(phrases[i].korean), esc(phrases[i].english),
                           esc(phrases[i].audio)>>, <<CommaUnit>>)]
    IN  Join(<<HeaderLine>> \o body, <<NewlineUnit>>)

\* text.split(/\r?\n/): cur is the piece being read.
RECURSIVE SplitLines(_, _)
SplitLines(text, cur) ==
    IF text = <<>> THEN <<cur>>
    ELSE IF Head(text) = NewlineUnit
         THEN <<cur>> \o SplitLines(Tail(text), <<>>)
    ELSE IF Head(text) = ReturnUnit /\ Len(text) > 1 /\ text[2] = NewlineUnit
         THEN <<cur>> \o SplitLines(Tail(Tail(text)), <<>>)
    ELSE SplitLines(Tail(text), Append(cur, Head(text)))

\* lines.filter(Boolean)
RECURSIVE NonEmptyOnes(_)
NonEmptyOnes(ls) ==
    IF ls = <<>> THEN <<>>
    ELSE (IF Head(ls) = <<>> THEN <<>> ELSE <<Head(ls)>>) \o NonEmptyOnes(Tail(ls))

\* s.includes(w)
Includes(s, w) ==
    \E i \in 1..(Len(s) + 1) :
        i + Len(w) - 1 <= Len(s) /\ SubSeq(s, i, i + Len(w) - 1) = w

\* "(?:[^"]|"")*" read from the opening quote: the position of the closing
\* quote that is followed by a comma or by the end of the line, 0 if the
\* quoted alternative does not match; r is the position the loop has reached.
RECURSIVE QuotedEnd(_, _)
QuotedEnd(line, r) ==
    IF r > Len(line) THEN 0
    ELSE IF line[r] # QuoteUnit THEN QuotedEnd(line, r + 1)
    ELSE IF r < Len(line) /\ line[r + 1] = QuoteUnit THEN QuotedEnd(line, r + 2)
    ELSE IF r = Len(line) \/ line[r + 1] = CommaUnit THEN r
    ELSE 0

\* [^,]+ read from p: the last position of the run.
RECURSIVE RunEnd(_, _)
RunEnd(line, p) ==
    IF p < Len(line) /\ line[p + 1] # CommaUnit THEN RunEnd(line, p + 1) ELSE p

\* line.match(/(?:"(?:[^"]|"")*"|[^,]+)(?:,|$)/g) || []: the tokens found
\* from position p on, each with its trailing comma.
RECURSIVE Tokens(_, _)
Tokens(line, p) ==
    IF p > Len(line) THEN <<>>
    ELSE IF line[p] = CommaUnit THEN Tokens(line, p + 1)
    ELSE LET q == IF line[p] = QuoteUnit THEN QuotedEnd(line, p + 1) ELSE 0
             last == IF q # 0 THEN q ELSE RunEnd(line, p)
             stop == IF last < Len(line) THEN last + 1 ELSE last
         IN  <<SubSeq(line, p, stop)>> \o Tokens(line, stop + 1)

\* s.replace(/""/g, '"')
RECURSIVE UnDouble(_)
UnDouble(s) ==
    IF s = <<>> THEN <<>>
    ELSE IF Len(s) > 1 /\ s[1] = QuoteUnit /\ s[2] = QuoteUnit
         THEN <<QuoteUnit>> \o UnDouble(Tail(Tail(s)))
    ELSE <<Head(s)>> \o UnDouble(Tail(s))

\* cleanCell of the server's parseCSV.
cleanCell(value) ==
    LET s1 == trim(value)
        s2 == IF s1 # <<>> /\ s1[Len(s1)] = CommaUnit
              THEN SubSeq(s1, 1, Len(s1) - 1) ELSE s1
        s3 == IF s2 # <<>> /\ s2[1] = QuoteUnit /\ s2[Len(s2)] = QuoteUnit
              THEN UnDouble(SubSeq(s2, 2, Len(s2) - 1)) ELSE s2
        s4 == trim(StripEdgeQuotes(s3))
    IN  stripEdgeHyphens(s4)

Phrase(k, e, a) == [korean |-> k, english |-> e, audio |-> a]

\* cols[i] || ''
Col(cols, i) == IF i <= Len(cols) THEN cols[i] ELSE <<>>

\* .filter(row => row.korean && row.english)
RECURSIVE ValidPhrases(_)
ValidPhrases(ps) ==
    IF ps = <<>> THEN <<>>
    ELSE (IF Head(ps).korean # <<>> /\ Head(ps).english # <<>>
          THEN <<Head(ps)>> ELSE <<>>) \o ValidPhrases(Tail(ps))

\* The server's parseCSV.
serverParseCSV(text) ==
    LET lines == NonEmptyOnes(SplitLines(text, <<>>))
        dataLines == IF Len(lines) > 1 /\ Includes(toLowerCase(lines[1]), KoreanWord)
                     THEN Tail(lines) ELSE lines
        parsed == [i \in 1..Len(dataLines) |->
                      LET cols == [j \in 1..Len(Tokens(dataLines[i], 1)) |->
                                      cleanCell(Tokens(dataLines[i], 1)[j])]
                      IN  Phrase(Col(cols, 1), Col(cols, 2), Col(cols, 3))]
    IN  ValidPhrases(parsed)

\* readCSVFile: a missing file reads as the empty list.
readCSVFile(file) == IF file.exists THEN serverParseCSV(file.text) ELSE <<>>

\* writeCSVFile
writeCSVFile(phrases) == [exists |-> TRUE, text |-> stringifyCSV(phrases)]


(***************************************************************************)
(* A request to the server.                                                *)
(*   method, path   the request line; path holds the fixed segments of the *)
(*                  URL and param the text of a trailing :index or :id     *)
(*                  segment (empty when there is none)                     *)
(*   key            the X-API-Key header, "absent" when it is not sent     *)
(*   over           which of the two rate limits the client has used up    *)
(*   phrase         the JSON body of a phrase request (a missing field     *)
(*                  reads as the empty text)                               *)
(*   csv            the uploaded csvFile                                   *)
(*   flag           the field studied of the body of POST /api/studied/:id *)
(*   map            the body of PUT /api/studied                           *)
(***************************************************************************)
API_SECRET == "s3cret"

Request(method, path, param, key, over) ==
    [method |-> method, path |-> path, param |-> param, key |-> key,
     over |-> over, phrase |-> NoPhrase, csv |-> NoUpload, flag |-> FALSE,
     map |-> EmptyMap]

\* What a handler leaves behind: the status of the response, whether it read
\* or wrote a data file, the list it passed to writeCSVFile (write tells
\* whether it did), the map of studied.json, and newPhrases of the import.
Outcome(status, io, write, phrases, data, added) ==
    [status |-> status, io |-> io, write |-> write, phrases |-> phrases,
     data |-> data, added |-> added]

\* The response was sent before any handler touched the data.
Refused(status, data) == Outcome(status, FALSE, FALSE, <<>>, data, 0)

\* The handler read the data and wrote nothing.
ReadOnly(status, data) == Outcome(status, TRUE, FALSE, <<>>, data, 0)

\* Number(parseInt(s)): leading white space, a sign, then decimal digits;
\* NaN when no digit follows.
RECURSIVE DigitsValue(_, _)
DigitsValue(s, acc) ==
    IF s # <<>> /\ Head(s) \in 48..57
    THEN DigitsValue(Tail(s), acc * 10 + (Head(s) - 48))
    ELSE acc

parseInt(s) ==
    LET t == TrimStart(s)
        u == IF t # <<>> /\ Head(t) \in {43, HyphenUnit} THEN Tail(t) ELSE t
    IN  IF u = <<>> \/ Head(u) \notin 48..57
        THEN [nan |-> TRUE, val |-> 0]
        ELSE [nan |-> FALSE,
              val |-> IF Head(t) = HyphenUnit
                      THEN 0 - DigitsValue(u, 0) ELSE DigitsValue(u, 0)]

\* index < 0 || index >= phrases.length: both comparisons are false for NaN.
IndexRefused(index, phrases) ==
    ~index.nan /\ (index.val < 0 \/ index.val >= Len(phrases))

\* p.korean.toLowerCase() === q.korean.toLowerCase() && the same for english
SamePhrase(p, q) ==
    /\ toLowerCase(p.korean) = toLowerCase(q.korean)
    /\ toLowerCase(p.english) = toLowerCase(q.english)

\* In the handlers below, phrases is what readCSVFile returns to the handler
\* and data what readStudiedData returns.

\* GET /api/phrases
getPhrases(req, phrases, data) == ReadOnly(200, data)

\* POST /api/phrases
postPhrase(req, phrases, data) ==
    IF req.phrase.korean = <<>> \/ req.phrase.english = <<>>
    THEN Refused(400, data)
    ELSE LET newPhrase == Phrase(trim(req.phrase.korean), trim(req.phrase.english),
                                 trim(req.phrase.audio))
         IN  IF \E i \in 1..Len(phrases) : SamePhrase(phrases[i], newPhrase)
             THEN ReadOnly(409, data)
             ELSE Outcome(201, TRUE, TRUE, <<newPhrase>> \o phrases, data, 0)

\* PUT /api/phrases/:index; phrases[NaN] = x sets a property of the array
\* and none of its elements.
putPhrase(req, phrases, data) ==
    LET index == parseInt(req.param)
        newPhrase == Phrase(trim(req.phrase.korean), trim(req.phrase.english),
                            trim(req.phrase.audio))
    IN  IF req.phrase.korean = <<>> \/ req.phrase.english = <<>>
        THEN Refused(400, data)
        ELSE IF IndexRefused(index, phrases)
        THEN ReadOnly(404, data)
        ELSE Outcome(200, TRUE, TRUE,
                     IF index.nan THEN phrases
                     ELSE [phrases EXCEPT ![index.val + 1] = newPhrase],
                     data, 0)

\* phrases.splice(index, 1): a start of NaN counts as 0.
Splice1(phrases, index) ==
    LET start == IF index.nan THEN 0 ELSE index.val
    IN  IF start >= Len(phrases) THEN phrases
        ELSE SubSeq(phrases, 1, start) \o SubSeq(phrases, start + 2, Len(phrases))

\* DELETE /api/phrases/:index
deletePhrase(req, phrases, data) ==
    LET index == parseInt(req.param)
    IN  IF IndexRefused(index, phrases)
        THEN ReadOnly(404, data)
        ELSE Outcome(200, TRUE, TRUE, Splice1(phrases, index), data, 0)

\* existingMap.has(key) for the key of phrase: existingMap holds the phrases
\* read from the file and is not added to while the upload is gone through.
InExistingMap(existingPhrases, phrase) ==
    \E i \in 1..Len(existingPhrases) : SamePhrase(existingPhrases[i], phrase)

\* newPhrases.forEach(phrase => { if (!existingMap.has(key)) push })
RECURSIVE NotExisting(_, _)
NotExisting(existingPhrases, newPhrases) ==
    IF newPhrases = <<>> THEN <<>>
    ELSE (IF InExistingMap(existingPhrases, Head(newPhrases))
          THEN <<>> ELSE <<Head(newPhrases)>>)
             \o NotExisting(existingPhrases, Tail(newPhrases))

\* POST /api/import, behind uploadLimiter; newPhrases is parseCSV of the
\* uploaded text.
postImport(req, newPhrases, existingPhrases, data) ==
    IF req.over = "uploads" THEN Refused(429, data)
    ELSE IF ~req.csv.attached THEN Refused(400, data)
    ELSE IF newPhrases = <<>> THEN Refused(400, data)
    ELSE Outcome(200, TRUE, TRUE,
                 existingPhrases \o NotExisting(existingPhrases, newPhrases),
                 data, Len(NotExisting(existingPhrases, newPhrases)))

\* GET /api/studied
getStudied(req, phrases, data) == ReadOnly(200, data)

\* PUT /api/studied
putStudied(req, phrases, data) == ReadOnly(200, req.map)

\* POST /api/studied/:id
postStudiedId(req, phrases, data) ==
    ReadOnly(200, postStudied(data, req.param, req.flag))

\* DELETE /api/studied
deleteStudiedAll(req, phrases, data) == ReadOnly(200, deleteStudied(data))

\* GET /api/health
getHealth(req, phrases, data) == Refused(200, data)

\* The routes in the order they are registered; the last one answers every
\* request no route took.
route(req, newPhrases, phrases, data) ==
    LET is(method, path, withParam) ==
            /\ req.method = method
            /\ req.path = path
            /\ (req.param # <<>>) = withParam
    IN  IF is("GET", <<"api", "phrases">>, FALSE) THEN getPhrases(req, phrases, data)
        ELSE IF is("POST", <<"api", "phrases">>, FALSE) THEN postPhrase(req, phrases, data)
        ELSE IF is("PUT", <<"api", "phrases">>, TRUE) THEN putPhrase(req, phrases, data)
        ELSE IF is("DELETE", <<"api", "phrases">>, TRUE) THEN deletePhrase(req, phrases, data)
        ELSE IF is("POST", <<"api", "import">>, FALSE)
             THEN postImport(req, newPhrases, phrases, data)
        ELSE IF is("GET", <<"api", "studied">>, FALSE) THEN getStudied(req, phrases, data)
        ELSE IF is("PUT", <<"api", "studied">>, FALSE) THEN putStudied(req, phrases, data)
        ELSE IF is("POST", <<"api", "studied">>, TRUE) THEN postStudiedId(req, phrases, data)
        ELSE IF is("DELETE", <<"api", "studied">>, FALSE) THEN deleteStudiedAll(req, phrases, data)
        ELSE IF is("GET", <<"api", "health">>, FALSE) THEN getHealth(req, phrases, data)
        ELSE Refused(404, data)

\* app.use('/api', authenticateAPI): inside a function mounted at /api,
\* req.path is the path of the URL without the mount point.
MountedPath(req) == Tail(req.path)

\* authenticateAPI: whether it calls next().
authenticateAPI(req) ==
    IF MountedPath(req) = <<"api", "health">> /\ req.param = <<>>
    THEN TRUE
    ELSE ~(req.key \in {"absent", ""} \/ req.key # API_SECRET)

\* The chain every request goes through: limiter, authenticateAPI for the
\* URLs under /api, the static files under /media, the routes.
handleRequest(req, newPhrases, phrases, data) ==
    IF req.over = "requests" THEN Refused(429, data)
    ELSE IF req.path # <<>> /\ Head(req.path) = "api" /\ ~authenticateAPI(req)
    THEN Refused(401, data)
    ELSE IF req.path # <<>> /\ Head(req.path) = "media"
    THEN Refused(IF req.method = "GET" THEN 200 ELSE 404, data)
    ELSE route(req, newPhrases, phrases, data)

(***************************************************************************)
(* The server answering one request after the other.                       *)
(***************************************************************************)
\* Cell texts sent to the server: "a", "A", "c", "-a", and "b".
TextA == <<97>>
TextUpperA == <<65>>
TextC == <<99>>
TextHyphenA == <<HyphenUnit, 97>>
TextB == <<98>>

PhraseBodies ==
    {Phrase(k, TextB, <<>>) : k \in {TextA, TextUpperA, TextC, TextHyphenA}}
        \cup {Phrase(<<>>, TextB, <<>>)}

\* Uploaded files: up to two lines out of a,b / A,b / c,b, without a header.
CsvLines == {k \o <<CommaUnit>> \o TextB : k \in {TextA, TextUpperA, TextC}}

CsvUploads ==
    {[attached |-> TRUE, text |-> Join(ls, <<NewlineUnit>>)] :
        ls \in SeqsUpTo(CsvLines, 2)} \cup {NoUpload}

\* "0", "1", "7", "-1", "abc", "1abc"
IndexParams ==
    {<<48>>, <<49>>, <<55>>, <<HyphenUnit, 49>>, <<97, 98, 99>>, <<49, 97, 98, 99>>}

Keys == {"absent", "guess", API_SECRET}
Overs == {"no", "requests", "uploads"}

\* One request per endpoint, with an empty body.
Endpoints ==
    {Request("GET", <<"api", "health">>, <<>>, "absent", "no"),
     Request("GET", <<"api", "api", "health">>, <<>>, "absent", "no"),
     Request("GET", <<"api", "phrases">>, <<>>, "absent", "no"),
     Request("POST", <<"api", "phrases">>, <<>>, "absent", "no"),
     Request("PUT", <<"api", "phrases">>, <<48>>, "absent", "no"),
     Request("DELETE", <<"api", "phrases">>, <<48>>, "absent", "no"),
     Request("POST", <<"api", "import">>, <<>>, "absent", "no"),
     Request("GET", <<"api", "studied">>, <<>>, "absent", "no"),
     Request("PUT", <<"api", "studied">>, <<>>, "absent", "no"),
     Request("POST", <<"api", "studied">>, RowHi.id, "absent", "no"),
     Request("DELETE", <<"api", "studied">>, <<>>, "absent", "no"),
     Request("GET", <<"media">>, TextA, "absent", "no"),
     Request("GET", <<"other">>, <<>>, "absent", "no")}

\* The bodies sent to an endpoint.
Bodies(e) ==
    IF e.path = <<"api", "phrases">> /\ e.method = "POST"
    THEN {[e EXCEPT !.phrase = p] : p \in PhraseBodies}
    ELSE IF e.path = <<"api", "phrases">> /\ e.method = "PUT"
    THEN {[e EXCEPT !.phrase = p, !.param = i] :
             p \in {Phrase(TextC, TextB, <<>>), Phrase(<<>>, TextB, <<>>)},
             i \in IndexParams}
    ELSE IF e.path = <<"api", "phrases">> /\ e.method = "DELETE"
    THEN {[e EXCEPT !.param = i] : i \in IndexParams}
    ELSE IF e.path = <<"api", "import">>
    THEN {[e EXCEPT !.csv = c] : c \in CsvUploads}
    ELSE IF e.path = <<"api", "studied">> /\ e.method = "POST"
    THEN {[e EXCEPT !.flag = f] : f \in BOOLEAN}
    ELSE IF e.path = <<"api", "studied">> /\ e.method = "PUT"
    THEN {[e EXCEPT !.map = TrueMap({RowHi.id})]}
    ELSE {e}

\* Every endpoint with every key, with the right key and every state of the
\* rate limits, and with the right key, no limit reached and every body.
Requests ==
    {[e EXCEPT !.key = k] : e \in Endpoints, k \in Keys}
        \cup {[e EXCEPT !.key = API_SECRET, !.over = o] : e \in Endpoints, o \in Overs}
        \cup UNION {{[b EXCEPT !.key = API_SECRET] : b \in Bodies(e)} : e \in Endpoints}

\* The server takes req, answers it and leaves the two data files behind.
\* The file is read and the upload parsed once, the handler runs on what was
\* read, and what it passed to writeCSVFile becomes the file.
ServeRequest(req) ==
    \E phrases \in {readCSVFile(srv.file)}, newPhrases \in {serverParseCSV(req.csv.text)} :
    \E out \in {handleRequest(req, newPhrases, phrases, server)} :
    \E file \in {IF out.write THEN writeCSVFile(out.phrases) ELSE srv.file} :
        /\ srv.reqs = <<>>
        /\ Len(readCSVFile(file)) <= MaxPhrases
        /\ srv' = [srv EXCEPT !.file = file,
                              !.last = [req |-> req, status |-> out.status,
                                        io |-> out.io, added |-> out.added]]
        /\ server' = out.data
        /\ UNCHANGED <<rows, studied, stored, pendRows, pendStudied, depRows,
                       depStudied, pc, lastOp, migWrote, writes, txt, before>>

ServerNext == \E req \in Requests : ServeRequest(req)

\* The server is started on an empty data directory; no client is modelled.
ServerInit ==
    /\ srv = NoSrv
    /\ server = EmptyMap
    /\ rows = <<>>
    /\ stored = StoredAbsent
    /\ studied = EmptyMap
    /\ pendRows = NoRows
    /\ pendStudied = NoStudied
    /\ depRows = FALSE
    /\ depStudied = FALSE
    /\ pc = "idle"
    /\ lastOp = NoOp
    /\ migWrote = FALSE
    /\ writes = 0
    /\ txt = NoText
    /\ before = NoBefore

ServerSpec == ServerInit /\ [][ServerNext]_vars


(***************************************************************************)
(* Claims about the server.                                                *)
(***************************************************************************)
UnderApi(req) == req.path # <<>> /\ Head(req.path) = "api"

IsHealth(req) ==
    req.method = "GET" /\ req.path = <<"api", "health">> /\ req.param = <<>>

\* C21: GET /api/health is answered without an API key; every other
\* endpoint under /api answers 401 and reads and writes nothing when the
\* X-API-Key header is missing or differs from API_SECRET. (Requests of a
\* client that has used up a rate limit are left aside.)
C21_HealthOpenRestKeyed ==
    (srv.last.req.method # "none" /\ srv.last.req.over = "no")
        => /\ IsHealth(srv.last.req) => srv.last.status = 200
           /\ (UnderApi(srv.last.req) /\ ~IsHealth(srv.last.req)
                   /\ srv.last.req.key # API_SECRET)
                  => (srv.last.status = 401 /\ ~srv.last.io)

\* What the code does instead: every request under /api, GET /api/health
\* included, is answered 401 without the key, and nothing is read or written;
\* the one URL let through is /api/api/health, which no route answers.
C21_EveryApiRequestKeyed ==
    (srv.last.req.method # "none" /\ srv.last.req.over = "no"
         /\ UnderApi(srv.last.req) /\ srv.last.req.key # API_SECRET)
        => IF srv.last.req.path = <<"api", "api", "health">>
           THEN srv.last.status = 404 /\ ~srv.last.io
           ELSE srv.last.status = 401 /\ ~srv.last.io

C21_HealthRefused ==
    /\ IsHealth(srv.last.req)
    /\ srv.last.req.key = "absent"
    /\ srv.last.req.over = "no"
    /\ srv.last.status = 401


\* No two phrases of the list have the same korean and the same english,
\* letter case left aside.
NoTwoAlike(phrases) ==
    \A i, j \in 1..Len(phrases) : SamePhrase(phrases[i], phrases[j]) => i = j

IsImport(req) == req.method = "POST" /\ req.path = <<"api", "import">>

\* The previous phrases are the first ones of the list after the import, and
\* newPhrases is the number of phrases after them.
ImportAppends ==
    LET old == readCSVFile(srv.file)
        new == readCSVFile(srv'.file)
    IN  /\ Len(new) >= Len(old)
        /\ SubSeq(new, 1, Len(old)) = old
        /\ srv'.last.added = Len(new) - Len(old)

\* C22: if no two stored phrases have the same (korean, english) pair,
\* letter case left aside, then after a successful POST /api/import of any
\* CSV there are still no two such phrases, every previous phrase is present
\* unchanged in the same order, and newPhrases is the number appended.
C22_ImportKeepsDistinct ==
    [][(IsImport(srv'.last.req) /\ srv'.last.status = 200
            /\ NoTwoAlike(readCSVFile(srv.file)))
        => (NoTwoAlike(readCSVFile(srv'.file)) /\ ImportAppends)]_vars

\* The part that holds: previous phrases kept in order, newPhrases counted.
C22_ImportAppendsOnly ==
    [][(IsImport(srv'.last.req) /\ srv'.last.status = 200) => ImportAppends]_vars

\* An import into a list without two alike phrases has left two alike ones.
C22_ImportLeftTwoAlike ==
    /\ IsImport(srv.last.req)
    /\ srv.last.status = 200
    /\ srv.last.added = Len(readCSVFile(srv.file))
    /\ ~NoTwoAlike(readCSVFile(srv.file))


IsPhraseAt(req) ==
    /\ req.method \in {"PUT", "DELETE"}
    /\ req.path = <<"api", "phrases">>
    /\ req.param # <<>>

\* The text is a decimal integer: digits, with or without a minus sign.
DenotesInteger(s) ==
    LET digits == IF s # <<>> /\ Head(s) = HyphenUnit THEN Tail(s) ELSE s
    IN  digits # <<>> /\ \A i \in 1..Len(digits) : digits[i] \in 48..57

\* The text denotes a position of the list (0-based).
DenotesPosition(s, phrases) ==
    /\ DenotesInteger(s)
    /\ parseInt(s).val >= 0
    /\ parseInt(s).val < Len(phrases)

C28_IntegerOutOfRangeRefused ==
    [][(IsPhraseAt(srv'.last.req) /\ srv'.last.req.key = API_SECRET
            /\ srv'.last.req.over = "no" /\ srv'.last.status # 400
            /\ DenotesInteger(srv'.last.req.param)
            /\ ~DenotesPosition(srv'.last.req.param, readCSVFile(srv.file)))
        => (srv'.last.status = 404
               /\ readCSVFile(srv'.file) = readCSVFile(srv.file))]_vars

\* DELETE /api/phrases/abc was answered 200 and a list of one phrase is left.
C28_DeletedAtNaN ==
    /\ srv.last.req.method = "DELETE"
    /\ srv.last.req.path = <<"api", "phrases">>
    /\ srv.last.req.param = <<97, 98, 99>>
    /\ srv.last.status = 200
    /\ Len(readCSVFile(srv.file)) = 1


(***************************************************************************)
(* POST /api/studied/:id requests in flight together. The handler awaits   *)
(* readStudiedData, changes the map it got, then awaits writeStudiedData:  *)
(* other requests run at the two awaits. srv.reqs holds a record per       *)
(* request, in order of arrival:                                           *)
(*   id, flag    the :id of the URL and the field studied of the body      *)
(*   at          "read": waiting for readStudiedData; "write": waiting for *)
(*               writeStudiedData; "done": answered                        *)
(*   data        studiedData of the handler                                *)
(*   overlap     whether an earlier request was unanswered on arrival      *)
(***************************************************************************)
StudiedIds == {RowHi.id, RowYo.id}

\* The request arrives and the handler calls readStudiedData.
StudiedArrive(id, flag) ==
    /\ Len(srv.reqs) < MaxInFlight
    /\ srv' = [srv EXCEPT !.reqs =
                  Append(@, [id |-> id, flag |-> flag, at |-> "read",
                             data |-> EmptyMap,
                             overlap |-> \E i \in 1..Len(srv.reqs) :
                                            srv.reqs[i].at # "done"])]
    /\ UNCHANGED <<appVars, txt, before>>

\* readStudiedData resolves with the map of the file; the handler sets or
\* deletes its key and calls writeStudiedData.
StudiedRead(i) ==
    /\ srv.reqs[i].at = "read"
    /\ srv' = [srv EXCEPT !.reqs[i].at = "write",
                          !.reqs[i].data =
                              postStudied(server, srv.reqs[i].id, srv.reqs[i].flag)]
    /\ UNCHANGED <<appVars, txt, before>>

\* writeStudiedData replaces the file and the handler answers.
StudiedWrite(i) ==
    /\ srv.reqs[i].at = "write"
    /\ server' = srv.reqs[i].data
    /\ srv' = [srv EXCEPT !.reqs[i].at = "done"]
    /\ UNCHANGED <<rows, studied, stored, pendRows, pendStudied, depRows,
                   depStudied, pc, lastOp, migWrote, writes, txt, before>>

StudiedNext ==
    \/ \E id \in StudiedIds, flag \in BOOLEAN : StudiedArrive(id, flag)
    \/ \E i \in 1..Len(srv.reqs) : StudiedRead(i)
    \/ \E i \in 1..Len(srv.reqs) : StudiedWrite(i)

StudiedInit ==
    /\ srv = NoSrv
    /\ server \in {TrueMap(K) : K \in SUBSET StudiedIds}
    /\ rows = <<>>
    /\ stored = StoredAbsent
    /\ studied = EmptyMap
    /\ pendRows = NoRows
    /\ pendStudied = NoStudied
    /\ depRows = FALSE
    /\ depStudied = FALSE
    /\ pc = "idle"
    /\ lastOp = NoOp
    /\ migWrote = FALSE
    /\ writes = 0
    /\ txt = NoText
    /\ before = NoBefore

StudiedSpec == StudiedInit /\ [][StudiedNext]_vars

\* The stored map shows the update of the request.
Reflected(req) == (req.id \in DOMAIN server) = req.flag

BothDone(i, j) ==
    /\ i < j
    /\ srv.reqs[i].at = "done"
    /\ srv.reqs[j].at = "done"
    /\ srv.reqs[i].id # srv.reqs[j].id

\* C29: when two POST /api/studied/:id requests for different ids are in
\* flight at the same time, the map stored after both have completed shows
\* both updates.
C29_OverlappingUpdatesKept ==
    \A i, j \in 1..Len(srv.reqs) :
        (BothDone(i, j) /\ srv.reqs[j].overlap)
            => (Reflected(srv.reqs[i]) /\ Reflected(srv.reqs[j]))

\* The part that holds: two requests of which the second arrives after the
\* first was answered.
C29_SuccessiveUpdatesKept ==
    \A i, j \in 1..Len(srv.reqs) :
        (BothDone(i, j) /\ ~srv.reqs[j].overlap)
            => (Reflected(srv.reqs[i]) /\ Reflected(srv.reqs[j]))

\* Both requests marked their id and only one of the two ids is stored.
C29_UpdateLost ==
    /\ Len(srv.reqs) = 2
    /\ BothDone(1, 2)
    /\ srv.reqs[1].flag
    /\ srv.reqs[2].flag
    /\ srv.reqs[1].id \notin DOMAIN server
    /\ srv.reqs[2].id \in DOMAIN server


(***************************************************************************)
(* Claims about the rows and the saved map.                                *)
(***************************************************************************)
\* C30: whenever the application is at rest, the value saved under
\* 'studiedRows' is the JSON text of the map held in memory, after any
\* sequence of mark, unmark, clear-all, add, edit, delete, import and
\* migration.
C30_SavedIsStudied == pc = "idle" => stored = StoredJson(studied)

\* At rest after an edit that moved a key and a rewrite by the migration
\* effect, with a map that is not empty.
C30_SavedAfterEditAndMigration ==
    /\ pc = "idle"
    /\ lastOp.kind = "edit"
    /\ lastOp.flag
    /\ writes > 0
    /\ studied # EmptyMap
    /\ stored = StoredJson(studied)


\* C26: starting from rows whose ids are pairwise distinct, after any add,
\* edit or import no two rows share an id; an add whose id already exists
\* leaves the rows unchanged, and an edit whose new id is the id of a
\* different row leaves the rows and the map unchanged.
C26_IdsStayDistinct ==
    [][(pc = "idle" /\ lastOp'.kind \in {"add", "edit", "import"}
            /\ DistinctIds(rows))
        => /\ DistinctIds(rows')
           /\ (lastOp'.kind = "add" /\ HasId(rows, lastOp'.id)) => rows' = rows
           /\ (lastOp'.kind = "edit" /\ ~lastOp'.flag)
                 => (rows' = rows /\ studied' = studied)]_vars

\* An edit was refused because its new id is the id of the other row.
C26_EditRefusedOnCollision ==
    /\ pc = "idle"
    /\ lastOp.kind = "edit"
    /\ ~lastOp.flag
    /\ Len(rows) = 2
    /\ DistinctIds(rows)
    /\ HasId(rows, lastOp.id)


IsImportStep == pc = "idle" /\ lastOp'.kind = "import"

\* The last row of the list with this id.
LastWith(rs, id) ==
    rs[CHOOSE i \in 1..Len(rs) :
          rs[i].id = id /\ \A j \in (i + 1)..Len(rs) : rs[j].id # id]

\* The rows after the first n are rows whose id was not in the list before.
AppendedAreNew(old, new, n) ==
    /\ Len(new) >= n
    /\ \A i \in 1..n : new[i].id \in RowIds(old)
    /\ \A i \in (n + 1)..Len(new) : new[i].id \notin RowIds(old)

\* C23 as stated: every row present before the import is still present
\* afterwards, an imported row is appended only when no row with its id
\* exists, the merged list holds each id at most once, and the import itself
\* does not change the map.
C23_ImportKeepsEveryRow ==
    [][IsImportStep
        => /\ \A i \in 1..Len(rows) : \E j \in 1..Len(rows') : rows'[j] = rows[i]
           /\ AppendedAreNew(rows, rows', Cardinality(RowIds(rows)))
           /\ DistinctIds(rows')
           /\ studied' = studied]_vars

\* C23 amended: every id present before the import is still present, once,
\* among the first rows, with the cleaned cells of the last row that had the
\* id before; every row before the import is still present when the ids were
\* pairwise distinct; imported rows are appended after them only under ids
\* that were not present; the import itself does not change the map.
C23_ImportKeepsEveryId ==
    [][IsImportStep
        => /\ \A id \in RowIds(rows) :
                 \E j \in 1..Len(rows') :
                     rows'[j] = sanitizeRow(LastWith(rows, id))
           /\ DistinctIds(rows)
                 => \A i \in 1..Len(rows) : rows'[i] = sanitizeRow(rows[i])
           /\ AppendedAreNew(rows, rows', Cardinality(RowIds(rows)))
           /\ DistinctIds(rows')
           /\ studied' = studied]_vars

\* Right after an import that left two rows, one of them with a marked id.
C23_ImportedTwoRows ==
    /\ lastOp.kind = "import"
    /\ pc = "migrate"
    /\ depRows
    /\ Len(rows) = 2
    /\ DistinctIds(rows)
    /\ \E i \in 1..2 : Truthy(studied, rows[i].id)


(***************************************************************************)
(* One user operation on the rows, made at rest, followed by the effects   *)
(* until the application is at rest again; before keeps the rows and the   *)
(* map as they were when the operation was made.                           *)
(***************************************************************************)
OpInit ==
    /\ rows \in RowLists
    /\ studied \in InitMaps
    /\ ~MigrationRewrites(rows, studied)
    /\ stored = StoredJson(studied)
    /\ before = [set |-> TRUE, rows |-> rows, studied |-> studied]
    /\ server = EmptyMap
    /\ pendRows = NoRows
    /\ pendStudied = NoStudied
    /\ depRows = FALSE
    /\ depStudied = FALSE
    /\ pc = "idle"
    /\ lastOp = NoOp
    /\ migWrote = FALSE
    /\ writes = 0
    /\ txt = NoText
    /\ srv = NoSrv

OpNext ==
    \/ MigrationEffect
    \/ PersistEffect
    \/ Render
    \/ /\ lastOp = NoOp
       /\ \E r \in AddRows : handleAddSave(r) /\ UNCHANGED server
    \/ /\ lastOp = NoOp
       /\ \E id \in RowIds(rows), r \in Catalog :
             handleEditSave(id, r) /\ UNCHANGED server
    \/ /\ lastOp = NoOp
       /\ \E id \in RowIds(rows), ok \in BOOLEAN :
             deleteRow(id, ok) /\ UNCHANGED server

OpSpec == OpInit /\ [][OpNext]_vars

\* The rows of the list other than those with this id have the status they
\* had in the map before.
OthersKeepStatus(rs, id) ==
    \A i \in 1..Len(rs) :
        rs[i].id # id => (Truthy(studied, rs[i].id) = Truthy(before.studied, rs[i].id))

\* C24: after handleAddSave has added a row whose id is not a key of the
\* map, and the effects have come to rest, the id of the new row is not in
\* the map and the status of every other row is as before, for every prior
\* state of rows and map.
C24_AddedStartsUnstudied ==
    (pc = "idle" /\ lastOp.kind = "add" /\ lastOp.flag
         /\ lastOp.id \notin DOMAIN before.studied)
        => /\ lastOp.id \notin DOMAIN studied
           /\ OthersKeepStatus(before.rows, lastOp.id)

\* The part that holds: prior states in which every key of the map is the
\* id of a row.
C24_AddedStartsUnstudiedOnIdKeys ==
    (pc = "idle" /\ lastOp.kind = "add" /\ lastOp.flag
         /\ KeysAreIds(before.rows, before.studied))
        => /\ lastOp.id \notin DOMAIN studied
           /\ OthersKeepStatus(before.rows, lastOp.id)

\* At rest after an add, the new row is marked though its id was no key.
C24_AddedRowMarked ==
    /\ pc = "idle"
    /\ lastOp.kind = "add"
    /\ lastOp.flag
    /\ lastOp.id \notin DOMAIN before.studied
    /\ Truthy(studied, lastOp.id)


\* The position of the row an applied edit replaced, and the id it has now.
EditedAt == FindIndex(before.rows, lastOp.id)
EditedId == rows[EditedAt].id

\* At rest after an edit that was applied and changed the id of its row.
EditMovedId ==
    /\ pc = "idle"
    /\ lastOp.kind = "edit"
    /\ lastOp.flag
    /\ EditedId # lastOp.id

\* The new id is studied exactly when the old one was, the old id is no
\* key any more, and the rows at the other positions have the status they
\* had.
EditCarriesStatus ==
    /\ Truthy(studied, EditedId) = Truthy(before.studied, lastOp.id)
    /\ lastOp.id \notin DOMAIN studied
    /\ \A i \in 1..Len(before.rows) :
          i # EditedAt
              => (Truthy(studied, before.rows[i].id)
                      = Truthy(before.studied, before.rows[i].id))

\* C25: when an edit changes the id of a row, the row is studied under the
\* new id exactly when it was studied under the old one, the old id is no
\* longer a key, and the status of every other row is unchanged, once the
\* effects have come to rest.
C25_EditKeepsStatus == EditMovedId => EditCarriesStatus

\* The part that holds: prior states in which the ids of the rows are
\* pairwise distinct and every key of the map is the id of a row, and edits
\* that leave no row with an audio cell that is the id of a row.
C25_EditKeepsStatusOnIdKeys ==
    (EditMovedId /\ DistinctIds(before.rows)
         /\ KeysAreIds(before.rows, before.studied)
         /\ \A i \in 1..Len(rows) :
               rows[i].audio \notin RowIds(rows) \cup RowIds(before.rows))
        => EditCarriesStatus

\* At rest after an edit that changed the id of a row that was not studied,
\* the row is studied.
C25_EditedRowMarked ==
    /\ EditMovedId
    /\ ~Truthy(before.studied, lastOp.id)
    /\ Truthy(studied, EditedId)


\* At rest after a confirmed delete.
DeleteSettled == pc = "idle" /\ lastOp.kind = "delete" /\ lastOp.flag

\* C27: a confirmed deleteRow(id) removes every row with that id and the key
\* id, and leaves the other rows, their order and the other entries of the
\* map unchanged, also once the migration effect has run again; when the
\* confirmation is declined nothing changes.
C27_DeleteRemovesOnlyThat ==
    /\ DeleteSettled
          => /\ rows = FilterOut(before.rows, lastOp.id)
             /\ studied = Without(before.studied, lastOp.id)
    /\ (lastOp.kind = "delete" /\ ~lastOp.flag)
          => (pc = "idle" /\ rows = before.rows /\ studied = before.studied)

\* The part that holds: the rows, in every case; the map, when every key of
\* it was the id of a row and no audio cell is the id of a row.
C27_DeleteOnIdKeys ==
    /\ DeleteSettled => rows = FilterOut(before.rows, lastOp.id)
    /\ (DeleteSettled /\ KeysAreIds(before.rows, before.studied)
            /\ \A i \in 1..Len(before.rows) :
                  before.rows[i].audio \notin RowIds(before.rows))
          => studied = Without(before.studied, lastOp.id)
    /\ (lastOp.kind = "delete" /\ ~lastOp.flag)
          => (pc = "idle" /\ rows = before.rows /\ studied = before.studied)

\* At rest after a confirmed delete, a row that was not studied is studied.
C27_OtherRowMarked ==
    /\ DeleteSettled
    /\ \E i \in 1..Len(rows) :
          /\ ~Truthy(before.studied, rows[i].id)
          /\ Truthy(studied, rows[i].id)

====
